---- MODULE Spec2Model ----
(***************************************************************************)
(* Model of the render pipeline of render-app2: the orchestrator           *)
(* generateSingleRender with its two requesters (services/geminiService.ts)*)
(* and the application state machine that drives it (App.tsx).             *)
(*                                                                         *)
(* Free text (scene description, model answers) is a sequence of           *)
(* characters.  Messages (errors, progress notifications, data URLs) are   *)
(* sequences of fragments, so that template strings are concatenations and *)
(* String.prototype.includes is fragment membership.                       *)
(***************************************************************************)
EXTENDS Integers, Sequences, FiniteSets, Bags, TLC

\* ---------------------------------------------------------------- bounds
MaxLen == 1

MaxDetect == 1

MaxRefs == 1

MaxCalls == 3

MaxImages == 1

MaxParts == 2

MaxCandidates == 2

MaxEncoded == 3

MaxDescribes == 2
\* File objects the reference dialog can hand over; one more than the limit.
MaxFiles == 6
\* Files chosen in one reference dialog.
MaxPicked == 2
\* Scene images uploaded one after the other.
MaxUploads == 2

\* ------------------------------------------------------ program constants
MAX_REFERENCE_IMAGES == 5

\* ---------------------------------------------------------------- values
Null == <<"null">>

Chars == {" ", "a"}

Strings == UNION {[1..n -> Chars] : n \in 0..MaxLen}

NOT_FOUND == "Requested entity was not found."

BILLING == "ai.google.dev/gemini-api/docs/billing"

INTERNAL == "Internal error encountered."

INVALID_KEY == "Invalid API Key. Please select a valid API key from a paid GCP project."

UNKNOWN == "Error desconocido"

REFINING == <<"Refinando prompt para la escena...">>

GENERATING == <<"Generando render para la escena...">>

MISSING == <<"Error: Descripcion de la escena faltante.">>

REMEDIATION == <<"Error interno del servidor (500) al generar la imagen.",
                 "1. Reducir la complejidad de la descripcion de la escena.",
                 "2. Usar menos imagenes de referencia o de menor resolucion.",
                 "3. Reintentar la generacion en unos minutos.">>

REFINE_PLACEHOLDER == <<"N", "o", "R">>

DETECT_PLACEHOLDER == <<"N", "o", "D">>

\* ------------------------------------------------------- string functions
\* String.prototype.trim: strips the white space at both ends.
RECURSIVE TrimStart(_)
TrimStart(s) == IF s # <<>> /\ Head(s) = " " THEN TrimStart(Tail(s)) ELSE s

RECURSIVE TrimEnd(_)
TrimEnd(s) == IF s # <<>> /\ s[Len(s)] = " " THEN TrimEnd(SubSeq(s, 1, Len(s) - 1)) ELSE s

Trim(s) == TrimEnd(TrimStart(s))

\* A JavaScript string used as a condition: null, undefined and "" are falsy.
Truthy(m) == m # Null /\ m # <<>>

\* error.message && error.message.includes(fragment)
Includes(m, fragment) == Truthy(m) /\ \E i \in 1..Len(m) : m[i] = fragment

\* message || 'Error desconocido'
OrUnknown(m) == IF Truthy(m) THEN m ELSE <<UNKNOWN>>

\* ------------------------------------------------------------ error values
\* A thrown value: its message, and the code and message of its error
\* property (code 0 and Null when the value has no error property).
NewError(m) == [message |-> m, code |-> 0, apiMessage |-> Null]

NoError == [message |-> Null, code |-> -1, apiMessage |-> Null]

\* What the remote service can fail a request with.
UpstreamErrors ==
    { [message |-> <<"404 NOT_FOUND: ", NOT_FOUND>>, code |-> 404, apiMessage |-> <<NOT_FOUND>>],
      [message |-> <<INTERNAL>>, code |-> 500, apiMessage |-> <<INTERNAL>>],
      [message |-> <<"Quota exceeded.">>, code |-> 429, apiMessage |-> <<"Quota exceeded.">>] }

\* What FileReader can fail with: the Error of onloadend, or the ProgressEvent
\* handed to reject by onerror (an event has no message).
ReadErrors ==
    { NewError(<<"Failed to read file as Data URL">>),
      [message |-> Null, code |-> 0, apiMessage |-> Null] }

CallbackError == NewError(<<"onProgress failed">>)

\* ------------------------------------------------------- render responses
InlinePart(mime, data) == [kind |-> "inline", mime |-> mime, data |-> data, text |-> Null]

TextPart(t) == [kind |-> "text", mime |-> "", data |-> "", text |-> t]

\* A response is the sequence of its candidates, a candidate the sequence of
\* its content parts.
RenderResponses ==
    { << <<InlinePart("image/png", "AAAA")>> >>,
      << <<TextPart(<<"here is your render">>), InlinePart("image/jpeg", "BBBB"), InlinePart("image/png", "AAAA")>> >>,
      << <<TextPart(<<"blocked by policy">>)>> >>,
      << <<TextPart(<<>>)>> >>,
      << <<>> >>,
      << <<TextPart(<<"see next candidate">>)>>, <<InlinePart("image/png", "AAAA")>> >>,
      << >> }

\* response.candidates?.[0]?.content?.parts
FirstParts(response) == IF response = <<>> THEN <<>> ELSE response[1]

\* Array.prototype.find: the index of the first part of the kind, 0 if none.
FindPart(parts, kind) ==
    IF \E i \in 1..Len(parts) : parts[i].kind = kind
    THEN CHOOSE i \in 1..Len(parts) :
            /\ parts[i].kind = kind
            /\ \A j \in 1..(i - 1) : parts[j].kind # kind
    ELSE 0

handleApiResponseWithoutText(response) ==
    LET parts == FirstParts(response)
        img == FindPart(parts, "inline")
    IN IF img # 0
       THEN [ok |-> TRUE,
             url |-> <<"data:", parts[img].mime, ";base64,", parts[img].data>>,
             err |-> NoError]
       ELSE [ok |-> FALSE,
             url |-> Null,
             err |-> NewError(<<"No se encontro imagen en la respuesta de la API. ",
                                " Por favor, revisa el prompt y la imagen de entrada.">>)]

\* handleApiResponse: the data URL of the first inline part, or the thrown
\* "no image" error carrying the text of the first text part.
handleApiResponse(response) ==
    LET parts == FirstParts(response)
        img == FindPart(parts, "inline")
        txt == FindPart(parts, "text")
        textOutput == IF txt = 0 THEN Null ELSE parts[txt].text
    IN IF img # 0
       THEN [ok |-> TRUE,
             url |-> <<"data:", parts[img].mime, ";base64,", parts[img].data>>,
             err |-> NoError]
       ELSE [ok |-> FALSE,
             url |-> Null,
             err |-> NewError(<<"No se encontro imagen en la respuesta de la API. ">>
                              \o (IF Truthy(textOutput)
                                  THEN <<"Mensaje del modelo: \"">> \o textOutput \o <<"\"">>
                                  ELSE <<>>)
                              \o <<" Por favor, revisa el prompt y la imagen de entrada.">>)]

\* --------------------------------------------------------------- requesters
\* !sceneDescription.trim()
IsBlankUntrimmed(desc) == desc = <<>>

IsBlank(desc) == Trim(desc) = <<>>

\* response.text?.trim() with no string to fall back on.
RefineResultWithoutPlaceholder(text) ==
    IF text # Null THEN Trim(text) ELSE <<>>

\* response.text?.trim() || "No se pudo refinar el prompt."
RefineResult(text) ==
    IF text # Null /\ Trim(text) # <<>> THEN Trim(text) ELSE REFINE_PLACEHOLDER

RefineCatchUnwrapped(err) ==
    IF Includes(err.message, NOT_FOUND) THEN NewError(<<INVALID_KEY>>) ELSE err

\* The catch block of refinePromptForGeneration: what it throws for a failure
\* of its request.
RefineCatch(err) ==
    IF Includes(err.message, NOT_FOUND)
    THEN NewError(<<INVALID_KEY>>)
    ELSE NewError(<<"Error al refinar el prompt: ">> \o OrUnknown(err.message))

\* The catch block of generateEventRender: what it throws for a failure of
\* its request or of handleApiResponse.
RenderCatch(err) ==
    IF Includes(err.message, NOT_FOUND) THEN NewError(<<INVALID_KEY>>) ELSE err

\* ------------------------------------------------------------- orchestrator
\* The classification of the catch block of generateSingleRender.
ClassifyErrorUnguarded(err) == err.message

ClassifyError(err) ==
    IF Includes(err.message, NOT_FOUND)
    THEN err.message
         \o <<" Un enlace a la documentacion de facturacion se puede encontrar en ", BILLING, ".">>
    ELSE IF err.code = 500 /\ err.apiMessage = <<INTERNAL>>
         THEN REMEDIATION
         ELSE <<"Error al generar la escena: ">> \o OrUnknown(err.message) \o <<".">>

\* One invocation of generateSingleRender: where it is suspended, its
\* arguments, the calls it made to onProgress, what it resolved to, and the
\* requests and file encodings it started.  cbThrows holds the calls of
\* onProgress (by number) that throw.
OrchIdle ==
    [pc |-> "idle", desc |-> <<>>, image |-> 0, nrefs |-> 0, cbThrows |-> {},
     emitted |-> <<>>, result |-> [url |-> Null, error |-> Null],
     refineReqs |-> 0, renderReqs |-> 0, encodes |-> 0,
     upstream |-> NoError, failedAt |-> "none", finalPrompt |-> Null]

\* onProgress(message)
Emit(g, message) == [g EXCEPT !.emitted = Append(@, message)]

\* Whether the call of onProgress just made threw.
Throws(g) == Len(g.emitted) \in g.cbThrows

OrchReject(g) == [g EXCEPT !.pc = "rejected"]

OrchReturn(g, res) == [g EXCEPT !.pc = "done", !.result = res]

OrchCatchRetry(g, err) ==
    IF g.refineReqs < 2
    THEN [g EXCEPT !.pc = "refining", !.refineReqs = @ + 1, !.renderReqs = 0]
    ELSE OrchReturn(g, [url |-> Null, error |-> ClassifyError(err)])

OrchCatchSilent(g, err) ==
    OrchReturn(g, [url |-> Null, error |-> ClassifyError(err)])

\* The catch block of generateSingleRender.
OrchCatch(g, err) ==
    LET errorMessage == ClassifyError(err)
        g1 == Emit(g, <<"Error al generar la escena: ">> \o errorMessage)
    IN IF Throws(g1)
       THEN OrchReject(g1)
       ELSE OrchReturn(g1, [url |-> Null, error |-> errorMessage])

OrchStartCheckFirst(image, desc, nrefs, cbThrows) ==
    LET g0 == [OrchIdle EXCEPT !.image = image, !.desc = desc, !.nrefs = nrefs,
                             !.cbThrows = cbThrows]
        g1 == Emit(g0, MISSING)
        g2 == Emit(g0, REFINING)
    IN IF IsBlank(desc)
       THEN IF Throws(g1)
            THEN OrchReject(g1)
            ELSE OrchReturn(g1, [url |-> Null, error |-> MISSING])
       ELSE IF Throws(g2)
            THEN OrchReject(g2)
            ELSE [g2 EXCEPT !.pc = "refining", !.refineReqs = @ + 1]

\* generateSingleRender up to its first await.
OrchStart(image, desc, nrefs, cbThrows) ==
    LET g0 == [OrchIdle EXCEPT !.image = image, !.desc = desc, !.nrefs = nrefs,
                             !.cbThrows = cbThrows]
        g1 == Emit(g0, REFINING)
        g2 == Emit(g1, MISSING)
    IN IF Throws(g1)
       THEN OrchReject(g1)
       ELSE IF IsBlank(desc)
            THEN IF Throws(g2)
                 THEN OrchReject(g2)
                 ELSE OrchReturn(g2, [url |-> Null, error |-> MISSING])
            ELSE [g1 EXCEPT !.pc = "refining", !.refineReqs = @ + 1]

OrchOnRefineProceeds(g, out) ==
    LET g0 == IF out.ok
              THEN [g EXCEPT !.finalPrompt = RefineResult(out.text)]
              ELSE [g EXCEPT !.finalPrompt = REFINE_PLACEHOLDER,
                             !.upstream = out.err, !.failedAt = "refine"]
        g1 == Emit(g0, GENERATING)
    IN IF Throws(g1)
       THEN OrchCatch(g1, CallbackError)
       ELSE [g1 EXCEPT !.pc = "encodingOriginal", !.encodes = @ + 1]

\* The refine request settles: refinePromptForGeneration returns or throws,
\* and generateSingleRender runs on to the first await of generateEventRender.
OrchOnRefine(g, out) ==
    LET g1 == Emit([g EXCEPT !.finalPrompt = RefineResult(out.text)], GENERATING)
    IN IF out.ok
       THEN IF Throws(g1)
            THEN OrchCatch(g1, CallbackError)
            ELSE [g1 EXCEPT !.pc = "encodingOriginal", !.encodes = @ + 1]
       ELSE OrchCatch([g EXCEPT !.upstream = out.err, !.failedAt = "refine"],
                      RefineCatch(out.err))

\* fileToPart(originalImage) settles; Promise.all over the reference images
\* starts.
OrchOnEncodeOriginal(g, out) ==
    IF out.ok
    THEN [g EXCEPT !.pc = "encodingRefs", !.encodes = @ + g.nrefs]
    ELSE OrchCatch(g, out.err)

\* Promise.all settles; the render request is sent.
OrchOnEncodeRefs(g, out) ==
    IF out.ok
    THEN [g EXCEPT !.pc = "rendering", !.renderReqs = @ + 1]
    ELSE OrchCatch(g, out.err)

\* The render request settles: generateEventRender returns or throws.
OrchOnRender(g, out) ==
    LET extracted == handleApiResponse(out.response)
    IN IF out.ok
       THEN IF extracted.ok
            THEN OrchReturn(g, [url |-> extracted.url, error |-> Null])
            ELSE OrchCatch(g, RenderCatch(extracted.err))
       ELSE OrchCatch([g EXCEPT !.upstream = out.err, !.failedAt = "render"],
                      RenderCatch(out.err))

\* ---------------------------------------------------- what can come back
TextOutcomes ==
    {[ok |-> TRUE, text |-> t, err |-> NoError] : t \in Strings \cup {Null}}
    \cup {[ok |-> FALSE, text |-> Null, err |-> e] : e \in UpstreamErrors}

EncodeOutcomes ==
    {[ok |-> TRUE, err |-> NoError]} \cup {[ok |-> FALSE, err |-> e] : e \in ReadErrors}

RenderOutcomes ==
    {[ok |-> TRUE, response |-> r, err |-> NoError] : r \in RenderResponses}
    \cup {[ok |-> FALSE, response |-> <<>>, err |-> e] : e \in UpstreamErrors}

\* ----------------------------------------------------------------- lighting
\* The values of the select controls and of the LightingConfig type, each a
\* string of one word.
LightingTypes == {<<"day">>, <<"sunset">>, <<"night">>}

ColorTemperatures == {<<"warm">>, <<"neutral">>, <<"cool">>, <<"golden">>}

ExposureCompensations == {<<"standard">>, <<"brighter">>, <<"darker">>, <<"very_bright">>, <<"very_dark">>}

ContrastEnhancements == {<<"natural">>, <<"enhanced">>, <<"soft">>, <<"high_contrast">>, <<"low_contrast">>}

\* What can be typed into the advanced instructions: a letter, a double
\* quote and a backslash.
InstructionChars == {"a", "\"", "\\"}

Instructions == UNION {[1..n -> InstructionChars] : n \in 0..MaxLen}

Lightings ==
    [lightingType : LightingTypes,
     colorTemperature : ColorTemperatures,
     exposureCompensation : ExposureCompensations,
     contrastEnhancement : ContrastEnhancements,
     advancedLightingInstructions : Instructions]

\* The initial values of the five useState hooks.
DefaultLighting ==
    [lightingType |-> <<"day">>,
     colorTemperature |-> <<"neutral">>,
     exposureCompensation |-> <<"standard">>,
     contrastEnhancement |-> <<"natural">>,
     advancedLightingInstructions |-> <<>>]

\* -------------------------------------------- the instructions of the refiner
\* switch (lightingType): lightingDetails stays '' when no case matches.
LightingDetails(lightingType) ==
    CASE lightingType = <<"day">> -> <<"Iluminacion: Luz diurna brillante y suave, natural.">>
      [] lightingType = <<"sunset">> -> <<"Iluminacion: Luz calida y dorada de atardecer.">>
      [] lightingType = <<"night">> -> <<"Iluminacion: Ambiente nocturno intimo.">>
      [] OTHER -> <<>>

\* switch (colorTemperature)
ColorTemperatureClause(colorTemperature) ==
    CASE colorTemperature = <<"warm">> -> <<"La temperatura de color general es calida. ">>
      [] colorTemperature = <<"neutral">> -> <<"La temperatura de color es neutra y equilibrada. ">>
      [] colorTemperature = <<"cool">> -> <<"La temperatura de color general es fria. ">>
      [] colorTemperature = <<"golden">> -> <<"La temperatura de color general es dorada y muy calida. ">>
      [] OTHER -> <<>>

ExposureClauseNoExtremes(exposureCompensation) ==
    CASE exposureCompensation = <<"standard">> -> <<"La exposicion es estandar y bien equilibrada. ">>
      [] exposureCompensation = <<"brighter">> -> <<"La imagen tiene una exposicion ligeramente mas brillante. ">>
      [] exposureCompensation = <<"darker">> -> <<"La imagen tiene una exposicion ligeramente mas oscura. ">>
      [] OTHER -> <<>>

\* switch (exposureCompensation)
ExposureClause(exposureCompensation) ==
    CASE exposureCompensation = <<"standard">> -> <<"La exposicion es estandar y bien equilibrada. ">>
      [] exposureCompensation = <<"brighter">> -> <<"La imagen tiene una exposicion ligeramente mas brillante. ">>
      [] exposureCompensation = <<"darker">> -> <<"La imagen tiene una exposicion ligeramente mas oscura. ">>
      [] exposureCompensation = <<"very_bright">> -> <<"La imagen tiene una exposicion muy brillante. ">>
      [] exposureCompensation = <<"very_dark">> -> <<"La imagen tiene una exposicion muy oscura. ">>
      [] OTHER -> <<>>

\* switch (contrastEnhancement)
ContrastClause(contrastEnhancement) ==
    CASE contrastEnhancement = <<"natural">> -> <<"El contraste es natural y realista. ">>
      [] contrastEnhancement = <<"enhanced">> -> <<"El contraste esta ligeramente mejorado. ">>
      [] contrastEnhancement = <<"soft">> -> <<"El contraste es suave y delicado. ">>
      [] contrastEnhancement = <<"high_contrast">> -> <<"El contraste es alto y dramatico. ">>
      [] contrastEnhancement = <<"low_contrast">> -> <<"El contraste es bajo. ">>
      [] OTHER -> <<>>

\* advancedLightingCommand: the three clauses, then the instructions of the
\* user when there are any.
AdvancedLightingCommand(l) ==
    ColorTemperatureClause(l.colorTemperature)
    \o ExposureClause(l.exposureCompensation)
    \o ContrastClause(l.contrastEnhancement)
    \o (IF Truthy(l.advancedLightingInstructions)
        THEN <<"Instrucciones de iluminacion muy especificas: ">> \o l.advancedLightingInstructions
        ELSE <<>>)

\* refiner, the template literal sent to the text model.
RefinementPrompt(sceneElementsDescription, l, hasReferenceImages) ==
    <<"Basado en las siguientes entradas de usuario, genera un prompt maestro",
      "**Instrucciones para el Prompt Maestro:**">>
    \o (IF hasReferenceImages THEN <<"**DIRECTIVA CRITICA: REFERENCIAS VISUALES ANULAN TEXTO EN CONFLICTO**">> ELSE <<>>)
    \o <<"**DIRECTIVA ULTRA-CRITICA DE FIDELIDAD 1:1 ABSOLUTA**",
         "**Protocolo Detallado de Traduccion de Materiales**",
         "**Guia de Atmosfera y Estilo:**",
         "**Entorno de Iluminacion (Fisicamente Preciso):** ">>
    \o LightingDetails(l.lightingType) \o <<" ">> \o AdvancedLightingCommand(l)
    \o <<"**Calidad:**", "**Directiva de Salida:**",
         "**Descripcion de Elementos de la Escena**">>
    \o sceneElementsDescription
    \o (IF hasReferenceImages THEN <<"- Nota: Tambien se proporcionan referencias visuales globales">> ELSE <<>>)
    \o <<"Genera el prompt maestro completo y refinado ahora:">>

\* --------------------------------------------------------------------- JSON
\* A JSON text is the sequence of its characters (a word of the model counts
\* as one character).  A JSON value is a string, null or an object, whose
\* members are kept in order; Undefined is what reading a missing property
\* gives.
JString(chars) == [type |-> "string", chars |-> chars, members |-> <<>>]

JNull == [type |-> "null", chars |-> <<>>, members |-> <<>>]

JObject(members) == [type |-> "object", chars |-> <<>>, members |-> members]

Undefined == [type |-> "undefined", chars |-> <<>>, members |-> <<>>]

RECURSIVE Escape(_)
\* The characters of a string literal: a double quote and a backslash are
\* written with a backslash before them.
Escape(chars) ==
    IF chars = <<>>
    THEN <<>>
    ELSE (IF Head(chars) \in {"\"", "\\"} THEN <<"\\", Head(chars)>> ELSE <<Head(chars)>>)
         \o Escape(Tail(chars))

QuoteUnescaped(chars) == <<"\"">> \o chars \o <<"\"">>

\* The string literal of JSON.stringify.
Quote(chars) == <<"\"">> \o Escape(chars) \o <<"\"">>

StringifyScalar(value) == IF value.type = "string" THEN Quote(value.chars) ELSE <<"null">>

RECURSIVE StringifyMembers(_)
\* The members of an object, one to a line, indented by two spaces.
StringifyMembers(members) ==
    <<"\n", " ", " ">> \o Quote(Head(members).key) \o <<":", " ">>
    \o StringifyScalar(Head(members).value)
    \o (IF Tail(members) = <<>> THEN <<>> ELSE <<",">> \o StringifyMembers(Tail(members)))

\* JSON.stringify(value, null, 2)
JSONStringify(value) ==
    IF value.type = "object"
    THEN IF value.members = <<>>
         THEN <<"{", "}">>
         ELSE <<"{">> \o StringifyMembers(value.members) \o <<"\n", "}">>
    ELSE StringifyScalar(value)

Whitespace == {" ", "\n"}

ParseFailed == [ok |-> FALSE, value |-> Undefined, next |-> 0]

Parsed(value, next) == [ok |-> TRUE, value |-> value, next |-> next]

RECURSIVE SkipWhitespace(_, _)
\* The first position from i on that holds no white space.
SkipWhitespace(text, i) ==
    IF i <= Len(text) /\ text[i] \in Whitespace THEN SkipWhitespace(text, i + 1) ELSE i

RECURSIVE ScanString(_, _, _)
\* A string literal from after its opening quote: up to the closing quote,
\* an escape standing for the character after the backslash; a line break or
\* the end of the text inside the literal is a syntax error.
ScanString(text, i, chars) ==
    IF i > Len(text) \/ text[i] = "\n"
    THEN ParseFailed
    ELSE IF text[i] = "\""
         THEN Parsed(JString(chars), i + 1)
         ELSE IF text[i] = "\\"
              THEN IF i + 1 <= Len(text) /\ text[i + 1] \in {"\"", "\\"}
                   THEN ScanString(text, i + 2, Append(chars, text[i + 1]))
                   ELSE ParseFailed
              ELSE ScanString(text, i + 1, Append(chars, text[i]))

\* A string literal or null at position i.
ParseScalar(text, i) ==
    IF i > Len(text)
    THEN ParseFailed
    ELSE IF text[i] = "\""
         THEN ScanString(text, i + 1, <<>>)
         ELSE IF text[i] = "null" THEN Parsed(JNull, i + 1) ELSE ParseFailed

RECURSIVE ParseMembers(_, _, _)
\* The members of an object from position i, the first character of a key,
\* up to the closing brace.
ParseMembers(text, i, members) ==
    LET key == ParseScalar(text, i)
        colon == SkipWhitespace(text, key.next)
        value == ParseScalar(text, SkipWhitespace(text, colon + 1))
        after == SkipWhitespace(text, value.next)
        all == Append(members, [key |-> key.value.chars, value |-> value.value])
    IN IF ~key.ok \/ key.value.type # "string"
       THEN ParseFailed
       ELSE IF colon > Len(text) \/ text[colon] # ":"
            THEN ParseFailed
            ELSE IF ~value.ok \/ after > Len(text)
                 THEN ParseFailed
                 ELSE IF text[after] = ","
                      THEN ParseMembers(text, SkipWhitespace(text, after + 1), all)
                      ELSE IF text[after] = "}"
                           THEN Parsed(JObject(all), after + 1)
                           ELSE ParseFailed

\* An object, a string literal or null at position i.
ParseValue(text, i) ==
    IF i <= Len(text) /\ text[i] = "{"
    THEN LET first == SkipWhitespace(text, i + 1)
         IN IF first <= Len(text) /\ text[first] = "}"
            THEN Parsed(JObject(<<>>), first + 1)
            ELSE ParseMembers(text, first, <<>>)
    ELSE ParseScalar(text, i)

\* JSON.parse: one value with white space around it, else a SyntaxError.
JSONParse(text) ==
    LET value == ParseValue(text, SkipWhitespace(text, 1))
    IN IF value.ok /\ SkipWhitespace(text, value.next) = Len(text) + 1
       THEN value
       ELSE ParseFailed

\* config.key: the value of the last member of that name, undefined when
\* there is none or config is a string.
Property(config, key) ==
    LET named == {i \in 1..Len(config.members) : config.members[i].key = key}
    IN IF named = {}
       THEN Undefined
       ELSE config.members[CHOOSE i \in named : \A j \in named : j <= i].value

\* Whether a value passes an if: a string that is not empty, or an object.
TruthyValue(value) ==
    \/ value.type = "object"
    \/ value.type = "string" /\ value.chars # <<>>

\* ------------------------------------------------------------------- state
VARIABLES
    aistudio,               \* whether window.aistudio exists in this environment
    keyCheck,               \* the checkApiKey effect: "pending" or "done"
    selectingKey,           \* the key dialog of openSelectKey is open
    uploadedSketchupScene,  \* 0 for null, else the identity of the File
    sceneDescription,
    referenceImages,        \* the reference Files, by identity
    referenceImagePreviews, \* the Files the previews were made of
    isDetectingScene,
    isLoading,
    generatedRender,        \* <<>> for null, else <<result>>
    error,
    hasApiKey,
    showApiKeyPrompt,
    detects,                \* the bag of invocations of detectSceneElements in flight
    delivered,              \* the failure the last step delivered to a request, and
                            \* the requests outstanding before that step
    lighting,               \* lightingType, colorTemperature, exposureCompensation,
                            \* contrastEnhancement and advancedLightingInstructions
    download,               \* the text of the lighting_config.json the last step saved
    lastLoad,               \* the configuration file the last step loaded, and the
                            \* lighting before it when the load was rejected
    refiner,                \* a call of refinePromptForGeneration on its own: its
                            \* arguments and the instructions it built
    request,                \* a call of generateEventRender on its own: its
                            \* arguments, the encodings settled, the request sent
    response,               \* the response a render request on its own is answered
                            \* with
    gen                     \* the invocation of generateSingleRender in flight

appVars == <<aistudio, keyCheck, selectingKey, uploadedSketchupScene, sceneDescription,
             referenceImages, referenceImagePreviews, isDetectingScene, isLoading,
             generatedRender, error, hasApiKey, showApiKeyPrompt, detects, delivered,
             lighting, download, lastLoad, refiner, request, response>>

lightVars == <<lighting, download, lastLoad, refiner, request, response>>

vars == <<appVars, gen>>

NoDelivery == [to |-> "none", err |-> NoError, before |-> 0]

\* The remote requests outstanding: describe requests, and the refine or
\* render request of the invocation in flight.
RequestsOutstanding ==
    LET requesting == {d \in BagToSet(detects) : d.pc = "requesting"}
    IN BagCardinality([d \in requesting |-> detects[d]])
       + (IF gen.pc \in {"refining", "rendering"} THEN 1 ELSE 0)

NoLighting ==
    [lightingType |-> Null, colorTemperature |-> Null, exposureCompensation |-> Null,
     contrastEnhancement |-> Null, advancedLightingInstructions |-> Null]

NoLoad == [result |-> "none"]

NoRefiner == [pc |-> "idle"]

NoRequest == [pc |-> "idle"]

\* The lighting state after construction; nothing saved, loaded or refined,
\* and no requester called on its own.
LightInit ==
    /\ lighting = DefaultLighting
    /\ download = Null
    /\ lastLoad = NoLoad
    /\ refiner = NoRefiner
    /\ request = NoRequest
    /\ response = <<>>

AppInit ==
    /\ aistudio \in BOOLEAN
    /\ keyCheck = "pending"
    /\ selectingKey = FALSE
    /\ uploadedSketchupScene = 0
    /\ sceneDescription = <<>>
    /\ referenceImages = <<>>
    /\ referenceImagePreviews = <<>>
    /\ isDetectingScene = FALSE
    /\ isLoading = FALSE
    /\ generatedRender = <<>>
    /\ error = Null
    /\ hasApiKey = FALSE
    /\ showApiKeyPrompt = FALSE
    /\ detects = EmptyBag
    /\ delivered = NoDelivery

\* ------------------------------------- the orchestrator called on its own
OrchInit ==
    /\ AppInit
    /\ LightInit
    /\ gen = OrchIdle

OrchInvoke ==
    /\ gen.pc = "idle"
    /\ \E desc \in Strings, nrefs \in 0..MaxRefs, cbThrows \in SUBSET (1..MaxCalls) :
          gen' = OrchStart(1, desc, nrefs, cbThrows)
    /\ UNCHANGED appVars

OrchRefineSettles ==
    /\ gen.pc = "refining"
    /\ \E out \in TextOutcomes : gen' = OrchOnRefine(gen, out)
    /\ UNCHANGED appVars

OrchEncodeOriginalSettles ==
    /\ gen.pc = "encodingOriginal"
    /\ \E out \in EncodeOutcomes : gen' = OrchOnEncodeOriginal(gen, out)
    /\ UNCHANGED appVars

OrchEncodeRefsSettles ==
    /\ gen.pc = "encodingRefs"
    /\ \E out \in EncodeOutcomes :
          /\ out.ok \/ gen.nrefs > 0
          /\ gen' = OrchOnEncodeRefs(gen, out)
    /\ UNCHANGED appVars

OrchRenderSettles ==
    /\ gen.pc = "rendering"
    /\ \E out \in RenderOutcomes : gen' = OrchOnRender(gen, out)
    /\ UNCHANGED appVars

OrchNext ==
    \/ OrchInvoke
    \/ OrchRefineSettles
    \/ OrchEncodeOriginalSettles
    \/ OrchEncodeRefsSettles
    \/ OrchRenderSettles

SpecOrch == OrchInit /\ [][OrchNext]_vars

\* -------------------------------------------------------- the application
\* checkApiKey, run once by the mount effect.
CheckApiKey ==
    /\ keyCheck = "pending"
    /\ keyCheck' = "done"
    /\ IF aistudio
       THEN \E selected \in BOOLEAN :
               /\ hasApiKey' = selected
               /\ showApiKeyPrompt' = ~selected
       ELSE /\ hasApiKey' = TRUE
            /\ showApiKeyPrompt' = FALSE
    /\ delivered' = NoDelivery
    /\ UNCHANGED <<referenceImages, referenceImagePreviews,
                   lightVars, aistudio, selectingKey, uploadedSketchupScene, sceneDescription,
                   isDetectingScene, isLoading, generatedRender, error, detects, gen>>

\* handleSelectApiKey up to its await; the button shows with the prompt, and
\* the dialog of openSelectKey is modal: the button is out of reach under it.
SelectApiKey ==
    /\ showApiKeyPrompt
    /\ IF aistudio
       THEN /\ ~selectingKey
            /\ selectingKey' = TRUE
            /\ UNCHANGED error
       ELSE /\ error' = <<"AI Studio API not available for key selection.">>
            /\ UNCHANGED selectingKey
    /\ delivered' = NoDelivery
    /\ UNCHANGED <<referenceImages, referenceImagePreviews,
                   lightVars, aistudio, keyCheck, uploadedSketchupScene, sceneDescription,
                   isDetectingScene, isLoading, generatedRender, hasApiKey,
                   showApiKeyPrompt, detects, gen>>

\* handleSelectApiKey after openSelectKey resolved.
SelectApiKeySettles ==
    /\ selectingKey
    /\ selectingKey' = FALSE
    /\ hasApiKey' = TRUE
    /\ showApiKeyPrompt' = FALSE
    /\ error' = Null
    /\ delivered' = NoDelivery
    /\ UNCHANGED <<referenceImages, referenceImagePreviews,
                   lightVars, aistudio, keyCheck, uploadedSketchupScene, sceneDescription,
                   isDetectingScene, isLoading, generatedRender, detects, gen>>

\* handleSketchupFileChange with a file, setting the lighting back to the
\* initial selection as well.
UploadSceneResetsLighting ==
    /\ \E file \in 1..MaxImages : uploadedSketchupScene' = file
    /\ sceneDescription' = <<>>
    /\ isDetectingScene' = FALSE
    /\ referenceImages' = <<>>
    /\ referenceImagePreviews' = <<>>
    /\ generatedRender' = <<>>
    /\ error' = Null
    /\ delivered' = NoDelivery
    /\ lighting' = DefaultLighting
    /\ UNCHANGED <<download, lastLoad, refiner, request, response, aistudio, keyCheck,
                   selectingKey, isLoading, hasApiKey, showApiKeyPrompt, detects, gen>>

\* handleSketchupFileChange with the chosen file.
handleSketchupFileChange(file) ==
    /\ uploadedSketchupScene' = file
    /\ sceneDescription' = <<>>
    /\ isDetectingScene' = FALSE
    /\ referenceImages' = <<>>
    /\ referenceImagePreviews' = <<>>
    /\ generatedRender' = <<>>
    /\ error' = Null
    /\ delivered' = NoDelivery
    /\ UNCHANGED <<lightVars, aistudio, keyCheck, selectingKey, isLoading, hasApiKey,
                   showApiKeyPrompt, detects, gen>>

\* handleSketchupFileChange with a file chosen.
UploadScene == \E file \in 1..MaxImages : handleSketchupFileChange(file)

\* handleSketchupFileChange with the file dialog cancelled.
CancelUpload ==
    /\ uploadedSketchupScene' = 0
    /\ delivered' = NoDelivery
    /\ UNCHANGED <<referenceImages, referenceImagePreviews,
                   lightVars, aistudio, keyCheck, selectingKey, sceneDescription, isDetectingScene,
                   isLoading, generatedRender, error, hasApiKey, showApiKeyPrompt,
                   detects, gen>>

\* handleSceneDescriptionChange; the textarea shows under an uploaded scene
\* once the description is not the empty string.
EditDescription ==
    /\ uploadedSketchupScene # 0
    /\ sceneDescription # <<>>
    /\ \E value \in Strings : sceneDescription' = value
    /\ delivered' = NoDelivery
    /\ UNCHANGED <<referenceImages, referenceImagePreviews,
                   lightVars, aistudio, keyCheck, selectingKey, uploadedSketchupScene,
                   isDetectingScene, isLoading, generatedRender, error, hasApiKey,
                   showApiKeyPrompt, detects, gen>>

\* The detect button: shown under an uploaded scene, disabled while
\* detecting or without a key.
DetectEnabled == uploadedSketchupScene # 0 /\ ~isDetectingScene /\ hasApiKey

handleDetectSceneElementsBusyFirst ==
    /\ isDetectingScene' = TRUE
    /\ IF uploadedSketchupScene = 0
       THEN /\ error' = <<"Por favor, sube una imagen de SketchUp para detectar elementos.">>
            /\ UNCHANGED <<showApiKeyPrompt, sceneDescription, detects>>
       ELSE IF ~hasApiKey
            THEN /\ showApiKeyPrompt' = TRUE
                 /\ error' = <<"Por favor, selecciona tu clave API antes de detectar elementos.">>
                 /\ UNCHANGED <<sceneDescription, detects>>
            ELSE /\ error' = Null
                 /\ sceneDescription' = <<>>
                 /\ detects' = detects (+) SetToBag({[pc |-> "encoding",
                                                       image |-> uploadedSketchupScene,
                                                       reqs |-> 0]})
                 /\ UNCHANGED showApiKeyPrompt
    /\ delivered' = NoDelivery
    /\ UNCHANGED <<referenceImages, referenceImagePreviews,
                   lightVars, aistudio, keyCheck, selectingKey, uploadedSketchupScene, isLoading,
                   generatedRender, hasApiKey, gen>>

\* handleDetectSceneElements up to the first await of detectSceneElements.
handleDetectSceneElements ==
    /\ IF uploadedSketchupScene = 0
       THEN /\ error' = <<"Por favor, sube una imagen de SketchUp para detectar elementos.">>
            /\ UNCHANGED <<showApiKeyPrompt, isDetectingScene, sceneDescription, detects>>
       ELSE IF ~hasApiKey
            THEN /\ showApiKeyPrompt' = TRUE
                 /\ error' = <<"Por favor, selecciona tu clave API antes de detectar elementos.">>
                 /\ UNCHANGED <<isDetectingScene, sceneDescription, detects>>
            ELSE /\ isDetectingScene' = TRUE
                 /\ error' = Null
                 /\ sceneDescription' = <<>>
                 /\ detects' = detects (+) SetToBag({[pc |-> "encoding",
                                                       image |-> uploadedSketchupScene,
                                                       reqs |-> 0]})
                 /\ UNCHANGED showApiKeyPrompt
    /\ delivered' = NoDelivery
    /\ UNCHANGED <<referenceImages, referenceImagePreviews,
                   lightVars, aistudio, keyCheck, selectingKey, uploadedSketchupScene, isLoading,
                   generatedRender, hasApiKey, gen>>

\* A click on the detect button.
DetectScene ==
    /\ DetectEnabled
    /\ BagCardinality(detects) < MaxDetect
    /\ handleDetectSceneElements

\* The catch block of detectSceneElements.
DetectCatch(err) ==
    IF Includes(err.message, NOT_FOUND)
    THEN NewError(<<INVALID_KEY>>)
    ELSE NewError(<<"Error al detectar elementos de la escena: ">> \o OrUnknown(err.message))

\* detectedText, or the fixed sentence when the response has no text.
DetectResult(text) ==
    IF text # Null /\ Trim(text) # <<>> THEN Trim(text) ELSE DETECT_PLACEHOLDER

\* The catch block of handleDetectSceneElements with no finally block.
DetectFailedKeepsBusy(err) ==
    /\ IF Includes(err.message, NOT_FOUND)
       THEN /\ error' = err.message
                        \o <<" Un enlace a la documentacion de facturacion se puede encontrar en ",
                             BILLING, ".">>
            /\ hasApiKey' = FALSE
            /\ showApiKeyPrompt' = TRUE
       ELSE /\ error' = <<"Fallo al detectar elementos de la escena: ">>
                        \o OrUnknown(err.message) \o <<".">>
            /\ UNCHANGED <<hasApiKey, showApiKeyPrompt>>
    /\ UNCHANGED <<isDetectingScene, sceneDescription>>

\* The catch and finally blocks of handleDetectSceneElements.
DetectFailed(err) ==
    /\ IF Includes(err.message, NOT_FOUND)
       THEN /\ error' = err.message
                        \o <<" Un enlace a la documentacion de facturacion se puede encontrar en ",
                             BILLING, ".">>
            /\ hasApiKey' = FALSE
            /\ showApiKeyPrompt' = TRUE
       ELSE /\ error' = <<"Fallo al detectar elementos de la escena: ">>
                        \o OrUnknown(err.message) \o <<".">>
            /\ UNCHANGED <<hasApiKey, showApiKeyPrompt>>
    /\ isDetectingScene' = FALSE
    /\ UNCHANGED sceneDescription

\* fileToPart settles in detectSceneElements: the describe request is sent,
\* or the read error reaches handleDetectSceneElements as it is.
DetectEncodeSettles ==
    \E d \in BagToSet(detects), out \in EncodeOutcomes :
        /\ d.pc = "encoding"
        /\ IF out.ok
           THEN /\ detects' = (detects (-) SetToBag({d}))
                               (+) SetToBag({[d EXCEPT !.pc = "requesting", !.reqs = @ + 1]})
                /\ UNCHANGED <<error, hasApiKey, showApiKeyPrompt, isDetectingScene,
                               sceneDescription>>
           ELSE /\ detects' = detects (-) SetToBag({d})
                /\ DetectFailed(out.err)
        /\ delivered' = NoDelivery
        /\ UNCHANGED <<referenceImages, referenceImagePreviews,
                   lightVars, aistudio, keyCheck, selectingKey, uploadedSketchupScene, isLoading,
                       generatedRender, gen>>

\* The describe request settles: detectSceneElements returns or throws and
\* handleDetectSceneElements runs to its end.
DetectRequestSettles ==
    \E d \in BagToSet(detects), out \in TextOutcomes :
        /\ d.pc = "requesting"
        /\ detects' = detects (-) SetToBag({d})
        /\ IF out.ok
           THEN /\ sceneDescription' = DetectResult(out.text)
                /\ isDetectingScene' = FALSE
                /\ delivered' = NoDelivery
                /\ UNCHANGED <<error, hasApiKey, showApiKeyPrompt>>
           ELSE /\ DetectFailed(DetectCatch(out.err))
                /\ delivered' = [to |-> "detect", err |-> out.err,
                                 before |-> RequestsOutstanding]
        /\ UNCHANGED <<referenceImages, referenceImagePreviews,
                   lightVars, aistudio, keyCheck, selectingKey, uploadedSketchupScene, isLoading,
                       generatedRender, gen>>

GenerateEnabledWhileLoading ==
    /\ ~IsBlank(sceneDescription)
    /\ uploadedSketchupScene # 0
    /\ hasApiKey

\* The generate button: shown when the description is not blank, disabled
\* while loading, without a scene or without a key.
GenerateEnabled ==
    /\ ~IsBlank(sceneDescription)
    /\ ~isLoading
    /\ uploadedSketchupScene # 0
    /\ hasApiKey

\* What handleGenerateRender does once the promise of generateSingleRender
\* has settled (g is the settled invocation), finally block included.
GenerateSettled(g) ==
    /\ isLoading' = FALSE
    /\ IF g.pc = "done"
       THEN /\ generatedRender' = <<g.result>>
            /\ UNCHANGED <<error, hasApiKey, showApiKeyPrompt>>
       ELSE /\ error' = (IF Includes(CallbackError.message, NOT_FOUND)
                         THEN CallbackError.message
                              \o <<" Un enlace a la documentacion de facturacion se puede encontrar en ",
                                   BILLING, ".">>
                         ELSE <<"Fallo general al generar el render: ">>
                              \o OrUnknown(CallbackError.message)
                              \o <<". Por favor, intentalo de nuevo.">>)
            /\ hasApiKey' = (hasApiKey /\ ~Includes(CallbackError.message, NOT_FOUND))
            /\ showApiKeyPrompt' = (showApiKeyPrompt \/ Includes(CallbackError.message, NOT_FOUND))
            /\ UNCHANGED generatedRender

\* One step of the invocation in flight, seen from the application: g is the
\* invocation after the step.
GenerateAdvances(g) ==
    /\ gen' = (IF g.pc \in {"done", "rejected"} THEN OrchIdle ELSE g)
    /\ IF g.pc \in {"done", "rejected"}
       THEN GenerateSettled(g)
       ELSE UNCHANGED <<isLoading, generatedRender, error, hasApiKey, showApiKeyPrompt>>
    /\ delivered' = (IF g.failedAt # gen.failedAt
                     THEN [to |-> g.failedAt, err |-> g.upstream,
                           before |-> RequestsOutstanding]
                     ELSE NoDelivery)
    /\ UNCHANGED <<referenceImages, referenceImagePreviews,
                   lightVars, aistudio, keyCheck, selectingKey, uploadedSketchupScene,
                   sceneDescription, isDetectingScene, detects>>

\* handleGenerateRender up to the first await of generateSingleRender.
handleGenerateRender ==
    /\ IF uploadedSketchupScene = 0
       THEN /\ error' = <<"Por favor, sube una imagen de SketchUp.">>
            /\ UNCHANGED <<showApiKeyPrompt, isLoading, generatedRender, gen, hasApiKey>>
       ELSE IF IsBlank(sceneDescription)
            THEN /\ error' = <<"Por favor, detecta o describe los elementos de la escena.">>
                 /\ UNCHANGED <<showApiKeyPrompt, isLoading, generatedRender, gen, hasApiKey>>
            ELSE IF ~hasApiKey
                 THEN /\ showApiKeyPrompt' = TRUE
                      /\ error' = <<"Por favor, selecciona tu clave API antes de generar el render.">>
                      /\ UNCHANGED <<isLoading, generatedRender, gen, hasApiKey>>
                 ELSE LET g == OrchStart(uploadedSketchupScene, sceneDescription,
                                         Len(referenceImages), {})
                      IN /\ gen' = (IF g.pc \in {"done", "rejected"} THEN OrchIdle ELSE g)
                         /\ IF g.pc \in {"done", "rejected"}
                            THEN /\ isLoading' = FALSE
                                 /\ generatedRender' = (IF g.pc = "done" THEN <<g.result>> ELSE <<>>)
                                 /\ error' = (IF g.pc = "done"
                                              THEN Null
                                              ELSE <<"Fallo general al generar el render: ">>
                                                   \o OrUnknown(CallbackError.message)
                                                   \o <<". Por favor, intentalo de nuevo.">>)
                            ELSE /\ isLoading' = TRUE
                                 /\ generatedRender' = <<>>
                                 /\ error' = Null
                         /\ UNCHANGED <<hasApiKey, showApiKeyPrompt>>
    /\ delivered' = NoDelivery
    /\ UNCHANGED <<referenceImages, referenceImagePreviews,
                   lightVars, aistudio, keyCheck, selectingKey, uploadedSketchupScene,
                   sceneDescription, isDetectingScene, detects>>

\* A click on the generate button.
GenerateRender ==
    /\ GenerateEnabled
    /\ handleGenerateRender

RefineSettles ==
    /\ isLoading /\ gen.pc = "refining"
    /\ \E out \in TextOutcomes : GenerateAdvances(OrchOnRefine(gen, out))

EncodeOriginalSettles ==
    /\ isLoading /\ gen.pc = "encodingOriginal"
    /\ \E out \in EncodeOutcomes : GenerateAdvances(OrchOnEncodeOriginal(gen, out))

EncodeRefsSettles ==
    /\ isLoading /\ gen.pc = "encodingRefs"
    /\ \E out \in EncodeOutcomes :
          /\ out.ok \/ gen.nrefs > 0
          /\ GenerateAdvances(OrchOnEncodeRefs(gen, out))

RenderSettles ==
    /\ isLoading /\ gen.pc = "rendering"
    /\ \E out \in RenderOutcomes : GenerateAdvances(OrchOnRender(gen, out))

\* handleStartNewScene; its button shows with a generated render.
StartNewScene ==
    /\ generatedRender # <<>>
    /\ uploadedSketchupScene' = 0
    /\ sceneDescription' = <<>>
    /\ isDetectingScene' = FALSE
    /\ referenceImages' = <<>>
    /\ referenceImagePreviews' = <<>>
    /\ generatedRender' = <<>>
    /\ error' = Null
    /\ delivered' = NoDelivery
    /\ UNCHANGED <<lightVars, aistudio, keyCheck, selectingKey, isLoading, hasApiKey,
                   showApiKeyPrompt, detects, gen>>

Range(seq) == {seq[i] : i \in 1..Len(seq)}

\* A copy of the whole array, whatever the end index.
SliceToUnbounded(seq, end) == seq

\* Array.prototype.slice(0, end) for end >= 0
SliceTo(seq, end) == SubSeq(seq, 1, IF end < Len(seq) THEN end ELSE Len(seq))

\* Array.prototype.filter(x => x !== file)
Without(seq, file) == SelectSeq(seq, LAMBDA x : x # file)

\* The lists of new File objects the file dialog can hand over.
FileLists ==
    {fs \in UNION {[1..n -> 1..MaxRefs] : n \in 0..MaxRefs} :
        /\ \A i, j \in 1..Len(fs) : fs[i] = fs[j] => i = j
        /\ Range(fs) \cap Range(referenceImages) = {}}

\* The body of handleReferenceImagesChange for the files of the change event.
handleReferenceImagesChange(filesToProcess) ==
    LET currentRefImagesCount == Len(referenceImages)
        newImages == SliceTo(filesToProcess, MAX_REFERENCE_IMAGES - currentRefImagesCount)
    IN /\ referenceImages' = referenceImages \o newImages
       /\ referenceImagePreviews' = referenceImagePreviews \o newImages
       /\ error' = (IF currentRefImagesCount + Len(filesToProcess) > MAX_REFERENCE_IMAGES
                    THEN <<"Solo se permiten un maximo de 5 imagenes de referencia.">>
                    ELSE Null)

\* handleReferenceImagesChange; the input shows when the description is not
\* blank and is disabled at the limit.
AddReferenceImages ==
    /\ ~IsBlank(sceneDescription)
    /\ Len(referenceImages) < MAX_REFERENCE_IMAGES
    /\ \E filesToProcess \in FileLists : handleReferenceImagesChange(filesToProcess)
    /\ delivered' = NoDelivery
    /\ UNCHANGED <<lightVars, aistudio, keyCheck, selectingKey, uploadedSketchupScene,
                   sceneDescription, isDetectingScene, isLoading, generatedRender,
                   hasApiKey, showApiKeyPrompt, detects, gen>>

\* handleRemoveReferenceImage; the button shows on each preview.
RemoveReferenceImage ==
    /\ ~IsBlank(sceneDescription)
    /\ \E fileToRemove \in Range(referenceImagePreviews) :
          /\ referenceImages' = Without(referenceImages, fileToRemove)
          /\ referenceImagePreviews' = Without(referenceImagePreviews, fileToRemove)
    /\ error' = Null
    /\ delivered' = NoDelivery
    /\ UNCHANGED <<lightVars, aistudio, keyCheck, selectingKey, uploadedSketchupScene,
                   sceneDescription, isDetectingScene, isLoading, generatedRender,
                   hasApiKey, showApiKeyPrompt, detects, gen>>

Init ==
    /\ AppInit
    /\ LightInit
    /\ gen = OrchIdle

Next ==
    \/ CheckApiKey
    \/ SelectApiKey
    \/ SelectApiKeySettles
    \/ UploadScene
    \/ CancelUpload
    \/ EditDescription
    \/ DetectScene
    \/ DetectEncodeSettles
    \/ DetectRequestSettles
    \/ GenerateRender
    \/ RefineSettles
    \/ EncodeOriginalSettles
    \/ EncodeRefsSettles
    \/ RenderSettles
    \/ StartNewScene
    \/ AddReferenceImages
    \/ RemoveReferenceImage

Spec == Init /\ [][Next]_vars

\* ------------------------------- the handlers called without their input
\* handleDetectSceneElements called with no scene uploaded or no key
\* selected, whatever the state of its button.
DetectWithoutInput ==
    /\ uploadedSketchupScene = 0 \/ ~hasApiKey
    /\ handleDetectSceneElements

\* handleGenerateRender called with no scene uploaded, a blank description
\* or no key selected, whatever the state of its button.
GenerateWithoutInput ==
    /\ uploadedSketchupScene = 0 \/ IsBlank(sceneDescription) \/ ~hasApiKey
    /\ handleGenerateRender

HandlersNext ==
    \/ CheckApiKey
    \/ SelectApiKey
    \/ SelectApiKeySettles
    \/ UploadScene
    \/ CancelUpload
    \/ EditDescription
    \/ DetectScene
    \/ DetectEncodeSettles
    \/ DetectRequestSettles
    \/ GenerateRender
    \/ RefineSettles
    \/ EncodeOriginalSettles
    \/ EncodeRefsSettles
    \/ RenderSettles
    \/ StartNewScene
    \/ DetectWithoutInput
    \/ GenerateWithoutInput

SpecHandlers == Init /\ [][HandlersNext]_vars

\* ------------------------------------------- the describe action on its own
\* A click on the detect button, with up to MaxDescribes invocations of
\* detectSceneElements in flight.
DescribeClick ==
    /\ DetectEnabled
    /\ BagCardinality(detects) < MaxDescribes
    /\ handleDetectSceneElements

DescribeNext ==
    \/ CheckApiKey
    \/ SelectApiKey
    \/ SelectApiKeySettles
    \/ UploadScene
    \/ CancelUpload
    \/ DescribeClick
    \/ DetectEncodeSettles
    \/ DetectRequestSettles

SpecDescribe == Init /\ [][DescribeNext]_vars

\* ------------------------------------------ the lighting controls and files
\* A field of the selection as a JSON value, and back.
ToJSON(field) == IF field = Null THEN JNull ELSE JString(field)

FromJSON(value) == IF value.type = "string" THEN value.chars ELSE Null

\* The config object of handleSaveLightingConfig, its properties in the order
\* they are written.
ConfigOf(l) ==
    JObject(<<[key |-> <<"lightingType">>, value |-> ToJSON(l.lightingType)],
              [key |-> <<"advancedLightingInstructions">>,
               value |-> ToJSON(l.advancedLightingInstructions)],
              [key |-> <<"colorTemperature">>, value |-> ToJSON(l.colorTemperature)],
              [key |-> <<"exposureCompensation">>, value |-> ToJSON(l.exposureCompensation)],
              [key |-> <<"contrastEnhancement">>, value |-> ToJSON(l.contrastEnhancement)]>>)

\* The text of the file handleSaveLightingConfig offers for download.
SaveFile(l) == JSONStringify(ConfigOf(l))

\* The message the catch of reader.onload sets for a thrown error.
LoadError(message) ==
    <<"Error al cargar la configuracion de iluminacion: ">>
    \o (IF Truthy(message) THEN message ELSE <<"Archivo JSON corrupto.">>)

ValidWithoutContrast(config) ==
    /\ TruthyValue(Property(config, <<"lightingType">>))
    /\ Property(config, <<"advancedLightingInstructions">>).type # "undefined"
    /\ TruthyValue(Property(config, <<"colorTemperature">>))
    /\ TruthyValue(Property(config, <<"exposureCompensation">>))

\* The condition under which reader.onload takes the parsed value for a
\* configuration.
Valid(config) ==
    /\ TruthyValue(Property(config, <<"lightingType">>))
    /\ Property(config, <<"advancedLightingInstructions">>).type # "undefined"
    /\ TruthyValue(Property(config, <<"colorTemperature">>))
    /\ TruthyValue(Property(config, <<"exposureCompensation">>))
    /\ TruthyValue(Property(config, <<"contrastEnhancement">>))

\* reader.onload of handleLoadLightingConfig on a file of this content: the
\* five values it sets when it accepts the file, the message it shows when it
\* does not.
ReadConfig(content) ==
    LET parsed == JSONParse(content)
        config == parsed.value
    IN IF ~parsed.ok
       THEN [result |-> "rejected", lighting |-> NoLighting,
             error |-> LoadError(<<"Unexpected token in JSON">>)]
       ELSE IF config.type = "null"
            THEN [result |-> "rejected", lighting |-> NoLighting,
                  error |-> LoadError(<<"Cannot read properties of null">>)]
            ELSE IF Valid(config)
                 THEN [result |-> "accepted",
                       lighting |->
                           [lightingType |-> FromJSON(Property(config, <<"lightingType">>)),
                            advancedLightingInstructions |->
                                FromJSON(Property(config, <<"advancedLightingInstructions">>)),
                            colorTemperature |->
                                FromJSON(Property(config, <<"colorTemperature">>)),
                            exposureCompensation |->
                                FromJSON(Property(config, <<"exposureCompensation">>)),
                            contrastEnhancement |->
                                FromJSON(Property(config, <<"contrastEnhancement">>))],
                       error |-> Null]
                 ELSE [result |-> "rejected", lighting |-> NoLighting,
                       error |-> LoadError(<<"Formato de configuracion de iluminacion no valido o incompleto.">>)]

LightingFields ==
    {"lightingType", "advancedLightingInstructions", "colorTemperature",
     "exposureCompensation", "contrastEnhancement"}

\* The selections that differ from the initial one in at most one field, and
\* one that differs in all.
SampleLightings ==
    {l \in Lightings : Cardinality({f \in LightingFields : l[f] # DefaultLighting[f]}) <= 1}
    \cup {[lightingType |-> <<"night">>,
           advancedLightingInstructions |-> <<"\"">>,
           colorTemperature |-> <<"golden">>,
           exposureCompensation |-> <<"very_dark">>,
           contrastEnhancement |-> <<"low_contrast">>]}

\* Saved files.
SampleFiles == {SaveFile(l) : l \in SampleLightings}

\* seq without its element i
RemoveAt(seq, i) == SubSeq(seq, 1, i - 1) \o SubSeq(seq, i + 1, Len(seq))

\* A saved file without one of its five properties.
IncompleteFiles ==
    {JSONStringify(JObject(RemoveAt(ConfigOf(l).members, i))) :
        l \in {DefaultLighting,
               [lightingType |-> <<"sunset">>,
                advancedLightingInstructions |-> <<"a">>,
                colorTemperature |-> <<"cool">>,
                exposureCompensation |-> <<"brighter">>,
                contrastEnhancement |-> <<"soft">>]},
        i \in 1..5}

\* Texts that are no JSON: an empty file, a word, a lone brace, and a saved
\* file cut before its closing brace or after it.
MalformedFiles ==
    {<<>>,
     <<"lighting">>,
     <<"{">>,
     SubSeq(SaveFile(DefaultLighting), 1, Len(SaveFile(DefaultLighting)) - 1),
     SaveFile(DefaultLighting) \o <<"}">>}

\* JSON of another shape: null, a string, an empty object, a configuration
\* with an empty lightingType, and one whose instructions are null.
OtherFiles ==
    {<<"null">>,
     Quote(<<"a">>),
     <<"{", "}">>,
     SaveFile([DefaultLighting EXCEPT !.lightingType = <<>>]),
     SaveFile([DefaultLighting EXCEPT !.advancedLightingInstructions = Null]),
     SaveFile([DefaultLighting EXCEPT !.lightingType = <<"noon">>])}

\* The application after a render was generated: the lighting section shows
\* (the description is not blank) and so does the save button (the render
\* has a url).
LightingInit ==
    /\ aistudio = FALSE
    /\ keyCheck = "done"
    /\ selectingKey = FALSE
    /\ uploadedSketchupScene = 1
    /\ sceneDescription = <<"a">>
    /\ referenceImages = <<>>
    /\ referenceImagePreviews = <<>>
    /\ isDetectingScene = FALSE
    /\ isLoading = FALSE
    /\ generatedRender = <<[url |-> <<"data:", "image/png", ";base64,", "AAAA">>,
                            error |-> Null]>>
    /\ error = Null
    /\ hasApiKey = TRUE
    /\ showApiKeyPrompt = FALSE
    /\ detects = EmptyBag
    /\ delivered = NoDelivery
    /\ LightInit
    /\ gen = OrchIdle

\* What no lighting handler touches.
sceneVars ==
    <<aistudio, keyCheck, selectingKey, uploadedSketchupScene, sceneDescription,
      referenceImages, referenceImagePreviews, isDetectingScene, isLoading,
      generatedRender, hasApiKey, showApiKeyPrompt, detects, delivered, refiner,
      request, response, gen>>

\* The lighting section shows when the description is not blank.
LightingShown == ~IsBlank(sceneDescription)

\* The options picked in the selects: the initial one and one other.  Every
\* other option enters the selection from a file (SampleFiles).
PickedColorTemperatures == {<<"neutral">>, <<"golden">>}

PickedExposureCompensations == {<<"standard">>, <<"very_dark">>}

PickedContrastEnhancements == {<<"natural">>, <<"low_contrast">>}

\* A lighting control changes one field; nothing is saved or loaded.
ChangeField(field, value) ==
    /\ LightingShown
    /\ lighting' = [lighting EXCEPT ![field] = value]
    /\ download' = Null
    /\ lastLoad' = NoLoad
    /\ UNCHANGED <<error, sceneVars>>

\* handleLightingTypeChange
ChangeLightingType ==
    \E value \in LightingTypes : ChangeField("lightingType", value)

\* handleColorTemperatureChange
ChangeColorTemperature ==
    \E value \in PickedColorTemperatures : ChangeField("colorTemperature", value)

\* handleExposureCompensationChange
ChangeExposureCompensation ==
    \E value \in PickedExposureCompensations : ChangeField("exposureCompensation", value)

\* handleContrastEnhancementChange
ChangeContrastEnhancement ==
    \E value \in PickedContrastEnhancements : ChangeField("contrastEnhancement", value)

\* handleAdvancedLightingChange
ChangeAdvancedLighting ==
    \E value \in Instructions : ChangeField("advancedLightingInstructions", value)

\* handleSaveLightingConfig; its button shows under a render that has a url.
SaveLightingConfig ==
    /\ generatedRender # <<>>
    /\ generatedRender[1].url # Null
    /\ download' = SaveFile(lighting)
    /\ lastLoad' = NoLoad
    /\ UNCHANGED <<lighting, error, sceneVars>>

\* The files on the user's disk: saved files, and files that are no
\* configuration.
ConfigFiles == SampleFiles \cup IncompleteFiles \cup MalformedFiles \cup OtherFiles

\* What reader.onload makes of each of them.
ReadConfigFiles == [content \in ConfigFiles |-> ReadConfig(content)]

\* reader.onload with the file read.  The callback reads the file only, not
\* the selection in memory, so what the user does while the file is read has
\* the effect it has before the load.
Loaded(content, read) ==
    /\ lighting' = (IF read.result = "accepted" THEN read.lighting ELSE lighting)
    /\ error' = read.error
    /\ lastLoad' = [file |-> content,
                    result |-> read.result,
                    before |-> IF read.result = "accepted" THEN NoLighting ELSE lighting]

\* handleLoadLightingConfig with a file chosen, and reader.onload: the file
\* is one on the disk or the one just saved.
LoadLightingConfig ==
    /\ LightingShown
    /\ \/ \E content \in ConfigFiles : Loaded(content, ReadConfigFiles[content])
       \/ download # Null /\ Loaded(download, ReadConfig(download))
    /\ download' = Null
    /\ UNCHANGED sceneVars

\* handleLoadLightingConfig with a file chosen, and reader.onerror.
LoadLightingConfigUnreadable ==
    /\ LightingShown
    /\ error' = <<"Error al leer el archivo de configuracion.">>
    /\ lastLoad' = [file |-> Null, result |-> "unreadable", before |-> lighting]
    /\ download' = Null
    /\ UNCHANGED <<lighting, sceneVars>>

LightingNext ==
    \/ ChangeLightingType
    \/ ChangeColorTemperature
    \/ ChangeExposureCompensation
    \/ ChangeContrastEnhancement
    \/ ChangeAdvancedLighting
    \/ SaveLightingConfig
    \/ LoadLightingConfig
    \/ LoadLightingConfigUnreadable

SpecLighting == LightingInit /\ [][LightingNext]_vars

\* ------------------------------- the render request answered on its own
\* The content parts a response is made of: two images and a text.
ResponseParts ==
    {InlinePart("image/png", "AAAA"),
     InlinePart("image/jpeg", "BBBB"),
     TextPart(<<"blocked by policy">>)}

Candidates == UNION {[1..n -> ResponseParts] : n \in 0..MaxParts}

Responses == UNION {[1..n -> Candidates] : n \in 0..MaxCandidates}

\* generateSingleRender suspended at the render request, with an onProgress
\* whose calls listed in cbThrows throw.
Rendering(cbThrows) ==
    OrchOnEncodeRefs(
        OrchOnEncodeOriginal(
            OrchOnRefine(OrchStart(1, <<"a">>, 0, cbThrows),
                         [ok |-> TRUE, text |-> <<"a">>, err |-> NoError]),
            [ok |-> TRUE, err |-> NoError]),
        [ok |-> TRUE, err |-> NoError])

\* The render request of an invocation is outstanding; the upstream service
\* will answer it with any response.
RenderInit ==
    /\ AppInit
    /\ lighting = DefaultLighting
    /\ download = Null
    /\ lastLoad = NoLoad
    /\ refiner = NoRefiner
    /\ request = NoRequest
    /\ response \in Responses
    /\ \E cbThrows \in SUBSET {3} : gen = Rendering(cbThrows)

\* The response arrives: handleApiResponse, the catch of generateEventRender
\* and the rest of generateSingleRender run.
RenderResponds ==
    /\ gen.pc = "rendering"
    /\ gen' = OrchOnRender(gen, [ok |-> TRUE, response |-> response, err |-> NoError])
    /\ UNCHANGED appVars

RenderNext == RenderResponds

SpecRender == RenderInit /\ [][RenderNext]_vars

\* ------------------------------------- the render requester called on its own
\* Files: their type and their content in base64.
SketchFile == [type |-> "image/png", data |-> "AAAA"]

FileData == <<"BBBB", "CCCC", "DDDD", "EEEE", "FFFF">>

ReferenceFiles ==
    {[type |-> IF i % 2 = 0 THEN "image/png" ELSE "image/jpeg", data |-> FileData[i]] :
        i \in 1..MaxEncoded}

\* The lists of reference images: distinct files in the order the user
\* supplied them.
ReferenceLists ==
    {list \in UNION {[1..n -> ReferenceFiles] : n \in 0..MaxEncoded} :
        \A i, j \in 1..Len(list) : list[i] = list[j] => i = j}

\* What fileToPart resolves to.
fileToPart(file) == InlinePart(file.type, file.data)

\* The slot of a Promise.all result that has not settled.
Pending == [kind |-> "pending", mime |-> "", data |-> "", text |-> Null]

PartsInSettlingOrder(r) ==
    <<fileToPart(r.originalImage)>>
    \o [k \in 1..Len(r.settled) |-> fileToPart(r.referenceImages[r.settled[k]])]
    \o <<TextPart(r.finalPrompt)>>

\* contents.parts of the request: [originalImagePart, ...referenceImageParts,
\* textPart]
RequestParts(r) ==
    <<fileToPart(r.originalImage)>> \o r.referenceImageParts \o <<TextPart(r.finalPrompt)>>

\* Promise.all resolved: the request is sent.
SendRequest(r) == [r EXCEPT !.pc = "requested", !.parts = RequestParts(r)]

\* generateEventRender is called and waits for fileToPart(originalImage).
RequestInit ==
    /\ AppInit
    /\ gen = OrchIdle
    /\ lighting = DefaultLighting
    /\ download = Null
    /\ lastLoad = NoLoad
    /\ refiner = NoRefiner
    /\ response = <<>>
    /\ \E finalPrompt \in Strings, files \in ReferenceLists :
          request = [pc |-> "encodingOriginal",
                     originalImage |-> SketchFile,
                     finalPrompt |-> finalPrompt,
                     referenceImages |-> files,
                     settled |-> <<>>,
                     referenceImageParts |-> <<>>,
                     parts |-> <<>>]

requestFrame ==
    <<aistudio, keyCheck, selectingKey, uploadedSketchupScene, sceneDescription,
      referenceImages, referenceImagePreviews, isDetectingScene, isLoading,
      generatedRender, error, hasApiKey, showApiKeyPrompt, detects, delivered,
      lighting, download, lastLoad, refiner, response, gen>>

\* fileToPart(originalImage) settles; on success every reference image
\* starts to be read, and with no reference image the request is sent.
RequestOriginalSettles ==
    /\ request.pc = "encodingOriginal"
    /\ \E out \in EncodeOutcomes :
          LET started == [request EXCEPT
                            !.pc = "encodingRefs",
                            !.referenceImageParts =
                                [i \in 1..Len(request.referenceImages) |-> Pending]]
          IN request' = IF ~out.ok
                        THEN [request EXCEPT !.pc = "failed"]
                        ELSE IF request.referenceImages = <<>>
                             THEN SendRequest(started)
                             ELSE started
    /\ UNCHANGED requestFrame

\* fileToPart of one reference image settles, in any order: Promise.all
\* keeps the part at the index of its file, rejects on the first failure,
\* and resolves with the last part, upon which the request is sent.
RequestReferenceSettles ==
    /\ request.pc = "encodingRefs"
    /\ \E i \in 1..Len(request.referenceImages), out \in EncodeOutcomes :
          /\ request.referenceImageParts[i] = Pending
          /\ LET kept == [request EXCEPT
                            !.settled = Append(@, i),
                            !.referenceImageParts[i] = fileToPart(request.referenceImages[i])]
             IN request' = IF ~out.ok
                           THEN [request EXCEPT !.pc = "failed"]
                           ELSE IF \A j \in 1..Len(kept.referenceImageParts) :
                                       kept.referenceImageParts[j] # Pending
                                THEN SendRequest(kept)
                                ELSE kept
    /\ UNCHANGED requestFrame

RequestNext ==
    \/ RequestOriginalSettles
    \/ RequestReferenceSettles

SpecRequest == RequestInit /\ [][RequestNext]_vars

\* ------------------------------------ the prompt handed to the render requester
\* The source holds three versions of generateSingleRender, which differ in
\* the prompt they hand to generateEventRender: the last one of
\* geminiService.ts hands over the refined prompt, the earlier one appends
\* strictLock, the one of part_000 puts technicalPrefix in front.
STRICT_LOCK == <<" --aspect-ratio 16:9 [IMPORTANT: OUTPUT MUST BE 16:9 LANDSCAPE. ...]">>

TECHNICAL_PREFIX ==
    <<"High fidelity image-to-image transformation. Keep input strict geometry. ">>

PromptVersions == {"finalPrompt", "strictLock", "technicalPrefix"}

\* The second argument of the call of generateEventRender.
CombinedPrompt(version, finalPrompt) ==
    CASE version = "finalPrompt" -> finalPrompt
      [] version = "strictLock" -> finalPrompt \o STRICT_LOCK
      [] version = "technicalPrefix" -> TECHNICAL_PREFIX \o finalPrompt

\* generateSingleRender was called with a description and some reference
\* images and waits for its refine request.
PromptInit ==
    /\ AppInit
    /\ lighting = DefaultLighting
    /\ download = Null
    /\ lastLoad = NoLoad
    /\ refiner = NoRefiner
    /\ request = NoRequest
    /\ response = <<>>
    /\ \E nrefs \in 0..MaxEncoded : gen = OrchStart(1, <<"a">>, nrefs, {})

\* The refine request settles and generateSingleRender calls
\* generateEventRender, in any of the versions.
PromptRefineSettles ==
    /\ gen.pc = "refining"
    /\ \E out \in TextOutcomes, version \in PromptVersions, files \in ReferenceLists :
          /\ Len(files) = gen.nrefs
          /\ gen' = OrchOnRefine(gen, out)
          /\ request' = IF gen'.pc = "encodingOriginal"
                        THEN [pc |-> "encodingOriginal",
                              originalImage |-> SketchFile,
                              finalPrompt |-> CombinedPrompt(version, gen'.finalPrompt),
                              referenceImages |-> files,
                              settled |-> <<>>,
                              referenceImageParts |-> <<>>,
                              parts |-> <<>>]
                        ELSE request
    /\ UNCHANGED <<aistudio, keyCheck, selectingKey, uploadedSketchupScene, sceneDescription,
                   referenceImages, referenceImagePreviews, isDetectingScene, isLoading,
                   generatedRender, error, hasApiKey, showApiKeyPrompt, detects, delivered,
                   lighting, download, lastLoad, refiner, response>>

PromptNext ==
    \/ PromptRefineSettles
    \/ RequestOriginalSettles
    \/ RequestReferenceSettles

SpecPrompt == PromptInit /\ [][PromptNext]_vars

\* ------------------------------------ a new scene under a changed lighting

\* The application showing a render, after the lighting controls were used,
\* with or without a reference image and an error message on screen.
SceneInit ==
    /\ aistudio = FALSE
    /\ keyCheck = "done"
    /\ selectingKey = FALSE
    /\ uploadedSketchupScene = 1
    /\ sceneDescription = <<"a">>
    /\ referenceImages \in {<<>>, <<1>>}
    /\ referenceImagePreviews = referenceImages
    /\ isDetectingScene = FALSE
    /\ isLoading = FALSE
    /\ generatedRender = <<[url |-> <<"data:", "image/png", ";base64,", "AAAA">>,
                            error |-> Null]>>
    /\ error \in {Null, <<"Error al leer el archivo de configuracion.">>}
    /\ hasApiKey = TRUE
    /\ showApiKeyPrompt = FALSE
    /\ detects = EmptyBag
    /\ delivered = NoDelivery
    /\ lighting \in Lightings
    /\ download = Null
    /\ lastLoad = NoLoad
    /\ refiner = NoRefiner
    /\ request = NoRequest
    /\ response = <<>>
    /\ gen = OrchIdle

SceneNext == UploadScene \/ StartNewScene

SpecScene == SceneInit /\ [][SceneNext]_vars

\* ------------------------------------ the reference images up to the limit

\* The lists of at most n different files of S.
RECURSIVE Arrangements(_, _)
Arrangements(S, n) ==
    IF n = 0 THEN {<<>>}
    ELSE {<<>>} \cup UNION {{<<file>> \o rest : rest \in Arrangements(S \ {file}, n - 1)} :
                                file \in S}

\* The lists of new File objects one dialog can hand over.
PickedFiles == Arrangements((1..MaxFiles) \ Range(referenceImages), MaxPicked)

\* handleReferenceImagesChange with up to MaxPicked of MaxFiles files chosen.
AddReferenceFiles ==
    /\ ~IsBlank(sceneDescription)
    /\ Len(referenceImages) < MAX_REFERENCE_IMAGES
    /\ \E filesToProcess \in PickedFiles : handleReferenceImagesChange(filesToProcess)
    /\ delivered' = NoDelivery
    /\ UNCHANGED <<lightVars, aistudio, keyCheck, selectingKey, uploadedSketchupScene,
                   sceneDescription, isDetectingScene, isLoading, generatedRender,
                   hasApiKey, showApiKeyPrompt, detects, gen>>

ReferencesNext ==
    \/ AddReferenceFiles
    \/ RemoveReferenceImage
    \/ UploadScene
    \/ StartNewScene

\* From the application showing a render, with no reference image yet.
SpecReferences == LightingInit /\ [][ReferencesNext]_vars

\* ------------------------------------ one scene image after the other

\* handleSketchupFileChange with a file chosen: every upload is another File.
UploadNewerScene ==
    /\ uploadedSketchupScene < MaxUploads
    /\ handleSketchupFileChange(uploadedSketchupScene + 1)

NewerNext ==
    \/ CheckApiKey
    \/ SelectApiKey
    \/ SelectApiKeySettles
    \/ UploadNewerScene
    \/ DetectScene
    \/ DetectEncodeSettles
    \/ DetectRequestSettles
    \/ GenerateRender
    \/ RefineSettles
    \/ EncodeOriginalSettles
    \/ EncodeRefsSettles
    \/ RenderSettles

SpecNewer == Init /\ [][NewerNext]_vars

\* ------------------------------------ every request and file read settles

\* Every promise the application waits for settles: the file reads and the
\* describe, refine and render requests.
Settling ==
    /\ WF_vars(DetectEncodeSettles)
    /\ WF_vars(DetectRequestSettles)
    /\ WF_vars(RefineSettles)
    /\ WF_vars(EncodeOriginalSettles)
    /\ WF_vars(EncodeRefsSettles)
    /\ WF_vars(RenderSettles)

SpecSettling == Init /\ [][NewerNext]_vars /\ Settling

\* ------------------------------------------ the refiner called on its own
\* refinePromptForGeneration is called with a description that is not blank,
\* any lighting selection, and whether there are reference images.
RefinerInit ==
    /\ AppInit
    /\ gen = OrchIdle
    /\ lighting \in Lightings
    /\ download = Null
    /\ lastLoad = NoLoad
    /\ request = NoRequest
    /\ response = <<>>
    /\ \E d \in {s \in Strings : ~IsBlank(s)}, r \in BOOLEAN :
          refiner = [pc |-> "called", sceneElementsDescription |-> d,
                     hasReferenceImages |-> r, refinementPrompt |-> Null]

\* refinePromptForGeneration up to its request: the instructions are built
\* and sent.
RefinerBuilds ==
    /\ refiner.pc = "called"
    /\ refiner' = [refiner EXCEPT
                     !.pc = "sent",
                     !.refinementPrompt = RefinementPrompt(refiner.sceneElementsDescription,
                                                           lighting,
                                                           refiner.hasReferenceImages)]
    /\ UNCHANGED <<aistudio, keyCheck, selectingKey, uploadedSketchupScene,
                   sceneDescription, referenceImages, referenceImagePreviews,
                   isDetectingScene, isLoading, generatedRender, error, hasApiKey,
                   showApiKeyPrompt, detects, delivered, lighting, download, lastLoad,
                   request, response, gen>>

RefinerNext == RefinerBuilds

SpecRefiner == RefinerInit /\ [][RefinerNext]_vars

\* ------------------------------------------------------------- properties
\* The descriptions that are empty or hold white space only.
BlankStrings == {s \in Strings : \A i \in 1..Len(s) : s[i] = " "}

OrchReturned == gen.pc = "done"

OrchRequests == gen.refineReqs + gen.renderReqs

\* C1: an invocation of the orchestrator with an empty or whitespace-only
\* description sends no refine or render request and encodes no file, and
\* what it returns is {url: null, error: <non-empty string>}.
C1_BlankDescriptionReturnsError ==
    (gen.pc # "idle" /\ gen.desc \in BlankStrings) =>
        /\ gen.refineReqs = 0 /\ gen.renderReqs = 0 /\ gen.encodes = 0
        /\ gen.pc \in {"done", "rejected"}
        /\ OrchReturned => (gen.result.url = Null /\ Truthy(gen.result.error))

C1_Witness ==
    /\ OrchReturned
    /\ gen.desc = <<" ">>
    /\ gen.result = [url |-> Null, error |-> MISSING]

\* C2: the promise of the orchestrator never rejects, whatever fails during
\* the invocation, a progress notification included.
C2_NeverRejects == gen.pc # "rejected"

\* C3: every result the orchestrator returns has exactly one of url and
\* error non-null.
C3_ExactlyOneOfUrlAndError ==
    OrchReturned => ((gen.result.url # Null) <=> (gen.result.error = Null))

C3_Witness ==
    /\ OrchReturned
    /\ gen.result.url = <<"data:", "image/jpeg", ";base64,", "BBBB">>
    /\ gen.result.error = Null

\* C4: when the refine or the render request failed with a message holding
\* "Requested entity was not found.", the error of the result holds the
\* billing-documentation reference.
C4_NotFoundGivesBillingReference ==
    (OrchReturned /\ Includes(gen.upstream.message, NOT_FOUND)) =>
        Includes(gen.result.error, BILLING)

\* C6: when the refine or the render request failed with the HTTP 500 error
\* "Internal error encountered.", the error of the result is the remediation
\* message.
C6_InternalErrorGivesRemediation ==
    (OrchReturned /\ gen.upstream.code = 500 /\ gen.upstream.apiMessage = <<INTERNAL>>) =>
        gen.result.error = REMEDIATION

ErrorNotification == <<"Error al generar la escena: ">> \o gen.result.error

C5_InvalidKeyRevertsToUnauthenticated ==
    (delivered.to # "none" /\ Includes(delivered.err.message, NOT_FOUND)) =>
        (~hasApiKey /\ showApiKeyPrompt)

\* C9: while the invocation started by the generate action is in flight
\* (refine request, encodings, render request), the description it was
\* given is not blank and the scene image it was given is an uploaded file.
C9_RenderOnlyWithDescriptionAndImage ==
    (gen.pc # "idle") => (gen.desc \notin BlankStrings /\ gen.image \in 1..MaxImages)

C9_Witness ==
    /\ gen.pc = "rendering"
    /\ gen.desc = <<"a">>
    /\ sceneDescription = <<>>
    /\ uploadedSketchupScene = 0

NoRetriesNow ==
    /\ gen.refineReqs <= 1
    /\ gen.renderReqs <= 1
    /\ \A d \in BagToSet(detects) : d.reqs = (IF d.pc = "requesting" THEN 1 ELSE 0)
    /\ gen.pc = "refining" => (gen.refineReqs = 1 /\ gen.renderReqs = 0)
    /\ gen.pc = "rendering" => (gen.refineReqs = 1 /\ gen.renderReqs = 1)

\* C10: an invocation of the orchestrator sends at most one refine and one
\* render request and a describe action at most one describe request, and
\* a step that delivers the failure of a request sends no request: it
\* leaves one request fewer outstanding than there were before it.
C10_NoRetries ==
    /\ NoRetriesNow
    /\ (delivered.to # "none") => (RequestsOutstanding = delivered.before - 1)

C10_Witness ==
    /\ delivered.to = "render"
    /\ gen.pc = "idle"
    /\ generatedRender # <<>>
    /\ RequestsOutstanding = 0

\* C11: in one invocation of the orchestrator the refine request comes
\* before the render request: while the refine request is outstanding no
\* image is being encoded and no render request was sent; encodings and the
\* render request start only with the prompt the refine request returned;
\* and an invocation whose refine request failed never encodes or renders.
C11_RefinePrecedesRender ==
    /\ gen.pc = "refining" => (gen.encodes = 0 /\ gen.renderReqs = 0)
    /\ (gen.encodes > 0 \/ gen.renderReqs > 0) =>
          (gen.refineReqs = 1 /\ gen.finalPrompt # Null /\ gen.failedAt # "refine")
    /\ gen.failedAt = "refine" => (gen.encodes = 0 /\ gen.renderReqs = 0)

C11_Witness ==
    /\ gen.pc = "rendering"
    /\ gen.refineReqs = 1
    /\ gen.renderReqs = 1
    /\ gen.encodes = 2
    /\ gen.finalPrompt = <<"a">>

\* Whether the fragments of clause appear, in a row, in text.
Contains(text, clause) ==
    \E i \in 1..Len(text) :
        /\ i + Len(clause) - 1 <= Len(text)
        /\ SubSeq(text, i, i + Len(clause) - 1) = clause

SavedFiles == [l \in Lightings |-> SaveFile(l)]

\* For each such file, the selections it is the saved form of.
SavedSelections ==
    [file \in {SavedFiles[l] : l \in Lightings} |-> {l \in Lightings : SavedFiles[l] = file}]

\* C13: round trip of the lighting configuration.  For every selection of
\* valid values of the five fields, the instructions possibly empty, a load
\* of the file that the save writes for it is accepted, shows no error, and
\* leaves in memory exactly the selection that was saved.
C13_SaveLoadRoundTrip ==
    (lastLoad.result \in {"accepted", "rejected"} /\ lastLoad.file \in DOMAIN SavedSelections) =>
        /\ lastLoad.result = "accepted"
        /\ SavedSelections[lastLoad.file] = {lighting}
        /\ error = Null

\* A selection with empty instructions and none of the initial options was
\* saved and the saved file loaded.
C13_Witness ==
    /\ lastLoad.result = "accepted"
    /\ lighting = [lightingType |-> <<"night">>,
                   advancedLightingInstructions |-> <<>>,
                   colorTemperature |-> <<"golden">>,
                   exposureCompensation |-> <<"very_dark">>,
                   contrastEnhancement |-> <<"low_contrast">>]
    /\ lastLoad.file = SaveFile(lighting)

\* C14: a rejected load is all or nothing.  A file that is no JSON, or a
\* saved file without one of its five properties, is rejected; and after
\* every rejected load an error message shows and the five fields have the
\* values they had before the load.
C14_RejectedLoadChangesNothing ==
    /\ (lastLoad.result # "none" /\ lastLoad.file \in MalformedFiles \cup IncompleteFiles) =>
          lastLoad.result = "rejected"
    /\ lastLoad.result \in {"rejected", "unreadable"} =>
          (lighting = lastLoad.before /\ error # Null /\ error # <<>>)

\* A file without its contrastEnhancement was loaded over a selection that
\* has none of the initial options.
C14_Witness ==
    /\ lastLoad.result = "rejected"
    /\ lastLoad.file \in IncompleteFiles
    /\ Property(JSONParse(lastLoad.file).value, <<"contrastEnhancement">>) = Undefined
    /\ Property(JSONParse(lastLoad.file).value, <<"lightingType">>) = JString(<<"sunset">>)
    /\ lighting.lightingType = <<"night">>
    /\ lighting.colorTemperature = <<"golden">>
    /\ lighting.advancedLightingInstructions = <<"a">>

\* The render request of the invocation was answered.
Responded == gen.pc \in {"done", "rejected"}

\* C15: a response without an inline image among its content parts makes the
\* render requester fail with the "no image" error, whose message holds the
\* text of every text part; the orchestrator returns {url: null, error} with
\* that message in the error (its promise rejects only when onProgress threw
\* on the error notification).
C15_NoImageGivesErrorWithText ==
    LET parts == FirstParts(response)
        extracted == handleApiResponse(response)
    IN (Responded /\ \A i \in 1..Len(parts) : parts[i].kind # "inline") =>
          /\ ~extracted.ok
          /\ Contains(extracted.err.message,
                      <<"No se encontro imagen en la respuesta de la API. ">>)
          /\ \A i \in 1..Len(parts) :
                parts[i].kind = "text" => Contains(extracted.err.message, parts[i].text)
          /\ gen.pc = "done" =>
                /\ gen.result.url = Null
                /\ gen.result.error # Null
                /\ Contains(gen.result.error, extracted.err.message)
          /\ gen.pc = "rejected" => 3 \in gen.cbThrows

\* The response is the one text part "blocked by policy" and the result's
\* error holds it.
C15_Witness ==
    /\ gen.pc = "done"
    /\ response = << <<TextPart(<<"blocked by policy">>)>> >>
    /\ gen.result.url = Null
    /\ Contains(gen.result.error, <<"blocked by policy">>)

RECURSIVE AllParts(_)
\* The content parts of all candidates of a response, in order.
AllParts(candidates) ==
    IF candidates = <<>> THEN <<>> ELSE Head(candidates) \o AllParts(Tail(candidates))

\* C16: whenever a content part of the response carries inline data,
\* whichever candidate it is in and whatever text parts surround it, the
\* result is the data URL made of the MIME type and payload of the first such
\* part.
C16_FirstInlinePartOfAnyCandidate ==
    LET parts == AllParts(response)
        img == FindPart(parts, "inline")
    IN (Responded /\ img # 0) =>
          /\ gen.pc = "done"
          /\ gen.result.url = <<"data:", parts[img].mime, ";base64,", parts[img].data>>
          /\ gen.result.error = Null

\* C17: the render request carries the original image first, then the
\* reference images in the order the user supplied them, then the prompt
\* text, in whatever order the encodings of the reference images completed.
C17_PartsInUserOrder ==
    request.pc = "requested" =>
        /\ Len(request.parts) = Len(request.referenceImages) + 2
        /\ request.parts[1] = InlinePart(request.originalImage.type, request.originalImage.data)
        /\ \A i \in 1..Len(request.referenceImages) :
              request.parts[i + 1] = InlinePart(request.referenceImages[i].type,
                                                request.referenceImages[i].data)
        /\ request.parts[Len(request.parts)] = TextPart(request.finalPrompt)

\* Three reference images were encoded, the last one first, and the request
\* was sent.
C17_Witness ==
    /\ request.pc = "requested"
    /\ Len(request.referenceImages) = 3
    /\ request.settled = <<3, 1, 2>>
    /\ request.finalPrompt = <<"a">>

\* C18: a describe action without an uploaded scene (or without a key), and
\* a generate action without an uploaded scene, with a blank description or
\* without a key, sets an error message, sends no request, and leaves
\* isDetectingScene, isLoading and the render as they are.
C18_MissingInputShortCircuits ==
    [][(DetectWithoutInput \/ GenerateWithoutInput) =>
          /\ error' # Null
          /\ error' # <<>>
          /\ RequestsOutstanding' = RequestsOutstanding
          /\ UNCHANGED <<isDetectingScene, isLoading, generatedRender, detects, gen>>]_vars

\* The generate handler ran with no scene while an invocation was waiting
\* for its render.
C18_Witness ==
    /\ error = <<"Por favor, sube una imagen de SketchUp.">>
    /\ uploadedSketchupScene = 0
    /\ isLoading
    /\ gen.pc = "rendering"

\* C19: while an invocation of the orchestrator is in flight isLoading is
\* set and the generate button cannot be used, so no second invocation
\* starts before the first has returned.
C19_OneInvocationInFlight ==
    gen.pc # "idle" => (isLoading /\ ~GenerateEnabled)

\* An invocation waits for its render and nothing but isLoading disables the
\* generate button.
C19_Witness ==
    /\ gen.pc = "rendering"
    /\ isLoading
    /\ ~IsBlank(sceneDescription)
    /\ uploadedSketchupScene # 0
    /\ hasApiKey

\* The describe requests sent and not yet answered.
DescribeRequestsInFlight ==
    LET requesting == {d \in BagToSet(detects) : d.pc = "requesting"}
    IN BagCardinality([d \in requesting |-> detects[d]])

\* C20: at most one describe request is in flight, whatever the user does
\* while the response is pending, an upload of another image or a cancelled
\* file dialog included.
C20_OneDescribeInFlight == DescribeRequestsInFlight <= 1

\* C21: the describe step and the generate step never overlap: in no
\* reachable state is a describe request outstanding together with a refine
\* or a render request.
C21_DescribeAndGenerateNeverOverlap ==
    ~(DescribeRequestsInFlight > 0 /\ gen.pc \in {"refining", "rendering"})

C23_RefinedPromptSentVerbatim ==
    request.pc = "requested" =>
        request.parts[Len(request.parts)].text \in
            {gen.finalPrompt, gen.finalPrompt \o STRICT_LOCK}

\* C24: the description the application holds is empty, a text the user
\* typed, or the trimmed text of a response to a describe request (user
\* texts and response texts are the Strings); it is never a text the program
\* made up.
C24_DescriptionNeverInvented ==
    sceneDescription \in {<<>>} \cup Strings \cup {Trim(text) : text \in Strings}

\* C25: uploading a scene image and starting a new scene both empty the
\* description, the reference images, their previews, the render and the
\* error, and leave the five lighting fields as they were.
C25_NewSceneKeepsLighting ==
    [][(UploadScene \/ StartNewScene) =>
          /\ sceneDescription' = <<>>
          /\ referenceImages' = <<>>
          /\ referenceImagePreviews' = <<>>
          /\ generatedRender' = <<>>
          /\ error' = Null
          /\ lighting' = lighting]_vars

C25_Witness ==
    /\ uploadedSketchupScene = 1
    /\ sceneDescription = <<>>
    /\ referenceImages = <<>>
    /\ referenceImagePreviews = <<>>
    /\ generatedRender = <<>>
    /\ error = Null
    /\ lighting # DefaultLighting

\* C26: the reference list never holds more than MAX_REFERENCE_IMAGES files,
\* the previews are the same files in the same order, and an add step with a
\* chosen list that does not fit appends the first files that fit and sets
\* the limit message (a list that fits is appended whole).
C26_ReferencesWithinLimit ==
    /\ [](/\ Len(referenceImages) <= MAX_REFERENCE_IMAGES
          /\ referenceImagePreviews = referenceImages)
    /\ [][\A chosen \in PickedFiles :
            (AddReferenceFiles /\ handleReferenceImagesChange(chosen)) =>
                LET room == MAX_REFERENCE_IMAGES - Len(referenceImages)
                IN IF Len(chosen) > room
                   THEN /\ referenceImages' = referenceImages \o SubSeq(chosen, 1, room)
                        /\ error' =
                             <<"Solo se permiten un maximo de 5 imagenes de referencia.">>
                   ELSE /\ referenceImages' = referenceImages \o chosen
                        /\ error' = Null]_vars

C26_Witness ==
    /\ Len(referenceImages) = MAX_REFERENCE_IMAGES
    /\ referenceImagePreviews = referenceImages
    /\ error = <<"Solo se permiten un maximo de 5 imagenes de referencia.">>

\* C27: the result of a request issued for an earlier image is never applied
\* to a newer one: a describe response that sets the description, and a
\* generate chain that sets the render, were started with the scene image
\* that is uploaded when the result is applied.
C27_ResultsOfCurrentImageOnly ==
    [][/\ \A d \in BagToSet(detects) :
             (/\ d.pc = "requesting"
              /\ detects' = detects (-) SetToBag({d})
              /\ sceneDescription' # <<>>
              /\ sceneDescription' # sceneDescription) => d.image = uploadedSketchupScene
       /\ (/\ gen.pc \in {"refining", "encodingOriginal", "encodingRefs", "rendering"}
           /\ generatedRender' # <<>>
           /\ generatedRender' # generatedRender) => gen.image = uploadedSketchupScene]_vars

\* C28: the lighting selection in memory is always valid: the four selects
\* hold one of their enumerated values and the instructions are a string,
\* whatever controls were changed and whatever files were loaded.
C28_LightingAlwaysValid ==
    /\ lighting.lightingType \in LightingTypes
    /\ lighting.colorTemperature \in ColorTemperatures
    /\ lighting.exposureCompensation \in ExposureCompensations
    /\ lighting.contrastEnhancement \in ContrastEnhancements
    /\ lighting.advancedLightingInstructions # Null

\* C29: when every request that was issued settles, a describe action that
\* set isDetectingScene is followed by a state where it is cleared, and a
\* generate action that set isLoading is followed by a state where it is
\* cleared, whether the requests succeed or fail.
C29_BusyFlagsReleased ==
    /\ isDetectingScene ~> ~isDetectingScene
    /\ isLoading ~> ~isLoading

\* A generate action failed and a describe action failed, and both flags are
\* clear.
C29_Witness ==
    /\ ~isLoading
    /\ ~isDetectingScene
    /\ generatedRender # <<>>
    /\ generatedRender[1].error # Null
    /\ error # Null
    /\ Contains(error, <<"Fallo al detectar elementos de la escena: ">>)

\* C30: when the refine request succeeds with a response that has no text
\* (none at all, or white space only), the refined prompt is the fixed
\* sentence, no failure is recorded, and unless the progress callback throws
\* the orchestrator goes on to read the scene image for the render request
\* with no result set.
C30_EmptyRefineResponseProceeds ==
    [][\A out \in TextOutcomes :
          (/\ gen.pc = "refining"
           /\ out.ok
           /\ (out.text = Null \/ Trim(out.text) = <<>>)
           /\ gen' = OrchOnRefine(gen, out)) =>
              /\ gen'.finalPrompt = REFINE_PLACEHOLDER
              /\ gen'.failedAt = gen.failedAt
              /\ gen'.upstream = gen.upstream
              /\ (Len(gen.emitted) + 1) \notin gen.cbThrows =>
                    /\ gen'.pc = "encodingOriginal"
                    /\ gen'.result = [url |-> Null, error |-> Null]]_vars

\* The render request made with the fixed sentence returned a render.
C30_Witness ==
    /\ gen.pc = "done"
    /\ gen.finalPrompt = REFINE_PLACEHOLDER
    /\ gen.renderReqs = 1
    /\ gen.result.url # Null
    /\ gen.result.error = Null

====
